---- MODULE Spec2Model ----
(***************************************************************************)
(* Billing reconciliation and insurance-coverage consumption of the        *)
(* ApapMedika back end (bill, insurance, appointment, pharmacy and         *)
(* hospitalization apps), modelled as a state machine over the database    *)
(* rows.  Every HTTP request handler is one action; the handlers that the  *)
(* concurrency and failure properties are about (PayBillSerializer /       *)
(* Bill.pay) are additionally split into their database statements.        *)
(***************************************************************************)
EXTENDS Integers, Sequences, FiniteSets, TLC

None == "None"

----------------------------------------------------------------------------
(* Bounds of the model *)

\* largest stock a restock may bring the medicine to
MaxStock == 2
\* quantity of the one MedicineQuantity line of the prescription
PrescQuantity == 2

----------------------------------------------------------------------------
(* Static reference data *)

\* the first three rows of the treatment catalogue
TREATMENT_DATA ==
    (1 :> [name |-> "X-ray", price |-> 150000]) @@
    (2 :> [name |-> "CT Scan", price |-> 1000000]) @@
    (3 :> [name |-> "MRI", price |-> 2500000])

\* the first two rows of the coverage catalogue
COVERAGE_DATA ==
    (1 :> [name |-> "X-ray", coverage_amount |-> 150000]) @@
    (2 :> [name |-> "CT Scan", coverage_amount |-> 1000000])

TreatmentIds == DOMAIN TREATMENT_DATA
CoverageIds == DOMAIN COVERAGE_DATA

\* the treatment lists a doctor enters
TreatmentChoices == {{1}, {1, 2}}
\* the treatment lists a doctor replaces an earlier list with: MRI is not
\* among the coverages of the company
RevisedTreatments == {{3}, {1, 3}}
\* the actions of the appointment status endpoint
StatusActions == {"done", "cancel"}

\* CompanyCoverage rows of the one insurance company of the model
CompanyCoverages == {1, 2}

Patients == {"p1", "p2"}
Appointments == {"a1", "a2"}
Bills == {"b1", "b2", "b3"}
\* Policy ids in the order the policies are entered
PolicySeq == <<"pol1", "pol2">>
PolicyIds == {PolicySeq[i] : i \in 1..Len(PolicySeq)}
\* the company of each policy; both companies offer CompanyCoverages
PolicyCompany == ("pol1" :> "c1") @@ ("pol2" :> "c2")

\* the patient an appointment is booked for
AppointmentPatient == ("a1" :> "p1") @@ ("a2" :> "p1")
\* the bill CreateAppointmentSerializer.create opens for an appointment
AppointmentBill == ("a1" :> "b1") @@ ("a2" :> "b2")
\* the patient of the one reservation and the bill opened for it
ReservationPatient == "p2"
ReservationBill == "b3"
\* the appointment the one prescription is written for
PrescriptionAppointment == "a1"

\* Room.price_per_day times the days of the stay, and the fee of the one
\* facility a reservation may add
RoomCost == 500000
FacilityFee == 50000

\* Medicine.price of the medicine the prescription asks for
MedicinePrice == 5000

\* The rows the requests of one behaviour work on: which appointments,
\* prescription, reservation and policy are created, and for which patient
\* the policy is taken out.  The service records of different episodes
\* evolve independently of each other, so a behaviour is followed for one of
\* these families of rows at a time.
Scenarios ==
    { {"a1", "a2", "pol1", "p1"},
      {"a1", "pr1", "pol1", "p1"},
      {"r1", "pol1", "p2"},
      {"a1", "pol1", "p2"},
      {"a1", "pol1", "pol2", "p1"} }

Min(x, y) == IF x <= y THEN x ELSE y

RECURSIVE SumOver(_, _)
SumOver(S, f) ==
    IF S = {} THEN 0
    ELSE LET x == CHOOSE y \in S : TRUE
         IN f[x] + SumOver(S \ {x}, f)

----------------------------------------------------------------------------
VARIABLES
    scope,      \* the rows this behaviour's requests create
    patients,   \* Patient rows that exist
    appts,      \* Appointment rows (with their AppointmentTreatment rows)
    presc,      \* the Prescription row and its MedicineQuantity line
    stock,      \* Medicine.stock
    resv,       \* the Reservation row
    bills,      \* Bill rows
    policies,   \* Policy rows
    pcov,       \* PolicyCoverage.used, per policy and coverage
    bct,        \* BillCoveredTreatment rows
    reqs,       \* in-flight payment requests (their in-memory objects)
    last,       \* the last request and its HTTP outcome
    usPost,     \* per bill: the stored row right after the last update_status
                \* call the last request made on it, None without a call
    paidWith,   \* per bill: policy and discount pay() computed for it
    written,    \* per PolicyCoverage: BillCoveredTreatment rows pay() wrote for it
    shown,      \* the bill last serialized and the coverage_discount it showed
    booked      \* the appointment table as id generation reads it: id, doctor,
                \* date, time and deleted_at of every row

vars == <<scope, patients, appts, presc, stock, resv, bills, policies, pcov, bct,
          reqs, last, usPost, paidWith, written, shown, booked>>

Requests == {"r1", "r2"}

NoAppointment == [exists |-> FALSE, status |-> 0, treatments |-> {}, total_fee |-> 0]
NoPrescription == [exists |-> FALSE, status |-> 0, fulfilled |-> 0, total_price |-> 0]
NoReservation == [exists |-> FALSE, total_fee |-> 0]
NoBill == [exists |-> FALSE, appointment |-> None, prescription |-> None,
           reservation |-> None, policy |-> None,
           appointment_total_fee |-> 0, prescription_total_price |-> 0,
           reservation_total_fee |-> 0, subtotal |-> 0, total_amount_due |-> 0,
           status |-> "TREATMENT_IN_PROGRESS"]
NoPolicy == [exists |-> FALSE, patient |-> None, status |-> 0, expired |-> FALSE,
             deleted |-> FALSE, total_coverage |-> 0, total_covered |-> 0]
\* a payment request that has not started: the Bill and Policy objects it
\* holds in memory, the discount it computed, the treatment lines its loop has
\* still to visit, the PolicyCoverage its current query returned, its HTTP
\* outcome, and the database as it was when the request began
IdleRequest == [pc |-> "idle", bill_id |-> None, bill |-> NoBill,
                policy |-> NoPolicy, covered |-> 0, todo |-> {}, match |-> 0,
                resp |-> "none", snap |-> <<>>]
NotPaid == [paid |-> FALSE, policy |-> None, discount |-> 0]
NothingShown == [bill |-> None, discount |-> 0]

\* usPost of a request that calls update_status on no bill
NoCalls == [b \in Bills |-> NoBill]

Init ==
    /\ scope \in Scenarios
    /\ patients = {}
    /\ appts = [a \in Appointments |-> NoAppointment]
    /\ presc = NoPrescription
    /\ stock = 0
    /\ resv = NoReservation
    /\ bills = [b \in Bills |-> NoBill]
    /\ policies = [p \in PolicyIds |-> NoPolicy]
    /\ pcov = [p \in PolicyIds |-> [c \in CoverageIds |-> FALSE]]
    /\ bct = {}
    /\ reqs = [r \in Requests |-> IdleRequest]
    /\ last = [op |-> "init", arg |-> None, resp |-> "ok"]
    /\ usPost = NoCalls
    /\ paidWith = [b \in Bills |-> NotPaid]
    /\ written = [p \in PolicyIds |-> [c \in CoverageIds |-> 0]]
    /\ shown = NothingShown
    /\ booked = {}

----------------------------------------------------------------------------
(* Bill model methods *)

\* Bill.calculate_subtotal
calculate_subtotal(bill) ==
    bill.appointment_total_fee + bill.prescription_total_price
        + bill.reservation_total_fee

\* policy.policycoverage_set.filter(coverage__name=name, used=False):
\* the unused PolicyCoverage lines of policy p that match treatment t by name
UnusedMatches(p, t, PC) ==
    {c \in CompanyCoverages :
        /\ COVERAGE_DATA[c].name = TREATMENT_DATA[t].name
        /\ ~PC[p][c]}

\* .first() of that query
FirstMatch(p, t, PC) == CHOOSE c \in UnusedMatches(p, t, PC) : TRUE

\* min(app_treatment.treatment.price, policy_coverage.coverage.coverage_amount)
CoverageAmount(t, c) ==
    Min(TREATMENT_DATA[t].price, COVERAGE_DATA[c].coverage_amount)

\* the discount with the used=False filter of the query left out
calculate_coverage_discount_IgnoresUsed(bill, A, PC) ==
    IF bill.policy = None \/ bill.appointment = None THEN 0
    ELSE LET ts == A[bill.appointment].treatments
             contrib == [t \in ts |->
                 IF \E c \in CompanyCoverages :
                        COVERAGE_DATA[c].name = TREATMENT_DATA[t].name
                 THEN CoverageAmount(t, CHOOSE c \in CompanyCoverages :
                        COVERAGE_DATA[c].name = TREATMENT_DATA[t].name)
                 ELSE 0]
         IN SumOver(ts, contrib)

\* Bill.calculate_coverage_discount
calculate_coverage_discount(bill, A, PC) ==
    IF bill.policy = None \/ bill.appointment = None THEN 0
    ELSE LET ts == A[bill.appointment].treatments
             contrib == [t \in ts |->
                 IF UnusedMatches(bill.policy, t, PC) # {}
                 THEN CoverageAmount(t, FirstMatch(bill.policy, t, PC))
                 ELSE 0]
         IN SumOver(ts, contrib)

\* the completion test without its prescription_done conjunct
ServicesDone_NoPrescription(bill, A, P) ==
    bill.appointment = None \/ A[bill.appointment].status = 1

\* the completion test at the head of Bill.update_status
ServicesDone(bill, A, P) ==
    /\ bill.appointment = None \/ A[bill.appointment].status = 1
    /\ bill.prescription = None \/ P.status = 2

\* Bill.update_status without the test of line 78 on the current status
update_status_AnyStatus(bill, A, P, R) ==
    IF ServicesDone(bill, A, P)
    THEN LET sub == calculate_subtotal(bill)
         IN [bill EXCEPT
                !.status = "UNPAID",
                !.subtotal = sub,
                !.appointment_total_fee =
                    IF bill.appointment # None
                    THEN A[bill.appointment].total_fee ELSE @,
                !.prescription_total_price =
                    IF bill.prescription # None THEN P.total_price ELSE @,
                !.reservation_total_fee =
                    IF bill.reservation # None THEN R.total_fee ELSE @,
                !.total_amount_due = sub]
    ELSE bill

\* Bill.update_status: the row it leaves (saved when it differs)
update_status(bill, A, P, R) ==
    IF ServicesDone(bill, A, P) /\ bill.status = "TREATMENT_IN_PROGRESS"
    THEN LET sub == calculate_subtotal(bill)
         IN [bill EXCEPT
                !.status = "UNPAID",
                !.subtotal = sub,
                !.appointment_total_fee =
                    IF bill.appointment # None
                    THEN A[bill.appointment].total_fee ELSE @,
                !.prescription_total_price =
                    IF bill.prescription # None THEN P.total_price ELSE @,
                !.reservation_total_fee =
                    IF bill.reservation # None THEN R.total_fee ELSE @,
                !.total_amount_due = sub]
    ELSE bill

\* Policy.update_status with > in place of >= in the fully-claimed test
policy_update_status_StrictlyOver(pol) ==
    IF pol.expired /\ pol.status \notin {2, 4}
    THEN [pol EXCEPT !.status = 3]
    ELSE IF pol.total_covered > pol.total_coverage /\ pol.status # 4
    THEN [pol EXCEPT !.status = 2]
    ELSE IF pol.total_covered > 0 /\ pol.status \notin {2, 3, 4}
    THEN [pol EXCEPT !.status = 1]
    ELSE pol

\* Policy.update_status
policy_update_status(pol) ==
    IF pol.expired /\ pol.status \notin {2, 4}
    THEN [pol EXCEPT !.status = 3]
    ELSE IF pol.total_covered >= pol.total_coverage /\ pol.status # 4
    THEN [pol EXCEPT !.status = 2]
    ELSE IF pol.total_covered > 0 /\ pol.status \notin {2, 3, 4}
    THEN [pol EXCEPT !.status = 1]
    ELSE pol

\* Bill.pay, lines 114-121: the policy row it saves
PolicyAfterPay(pol, covered_amount) ==
    policy_update_status(
        [pol EXCEPT !.total_covered = @ + covered_amount,
                    !.status = IF @ = 0 THEN 1 ELSE @])

\* BillCoveredTreatment.objects.create: rows are distinct by their uuid, here
\* by the number n of the copy
AddRow(rows, b, t, amount) ==
    LET same == {r \in rows : r.bill = b /\ r.treatment = t
                                /\ r.coverage_amount = amount}
    IN rows \cup {[bill |-> b, treatment |-> t,
                   treatment_name |-> TREATMENT_DATA[t].name,
                   treatment_price |-> TREATMENT_DATA[t].price,
                   coverage_amount |-> amount,
                   n |-> Cardinality(same) + 1]}

\* the pass of the loop of Bill.pay without lines 133-134: the row is
\* written, the PolicyCoverage is not saved as used
PayLine_NotMarked(b, p, t, PC, rows, W) ==
    IF UnusedMatches(p, t, PC) = {} THEN <<PC, rows, W>>
    ELSE LET c == FirstMatch(p, t, PC)
         IN <<PC,
              AddRow(rows, b, t, CoverageAmount(t, c)),
              [W EXCEPT ![p][c] = @ + 1]>>

\* one pass of the loop of Bill.pay (lines 124-143) for treatment line t of
\* bill b with policy p: <<PolicyCoverage.used, rows, written>> afterwards
PayLine(b, p, t, PC, rows, W) ==
    IF UnusedMatches(p, t, PC) = {} THEN <<PC, rows, W>>
    ELSE LET c == FirstMatch(p, t, PC)
         IN <<[PC EXCEPT ![p][c] = TRUE],
              AddRow(rows, b, t, CoverageAmount(t, c)),
              [W EXCEPT ![p][c] = @ + 1]>>

\* the whole loop over the treatment lines ts
RECURSIVE PayLines(_, _, _, _, _, _)
PayLines(b, p, ts, PC, rows, W) ==
    IF ts = {} THEN <<PC, rows, W>>
    ELSE LET t == CHOOSE x \in ts : \A y \in ts : x <= y
             r == PayLine(b, p, t, PC, rows, W)
         IN PayLines(b, p, ts \ {t}, r[1], r[2], r[3])

----------------------------------------------------------------------------
(* Requests that create rows *)

\* the HTTP outcome of a request whose response a property refers to
Reply(op, arg, resp) == last' = [op |-> op, arg |-> arg, resp |-> resp]
\* any other request that was served
Served == last' = [op |-> "other", arg |-> "-", resp |-> "ok"]

NewBill(a, r) == [NoBill EXCEPT !.exists = TRUE, !.appointment = a,
                                !.reservation = r]

PolicyCount == Cardinality({q \in PolicyIds : policies[q].exists})

\* CreatePolicySerializer.validate, lines 222-234, for company c
HasActivePolicy(p, c) ==
    \E q \in PolicyIds :
        /\ policies[q].exists /\ policies[q].patient = p
        /\ PolicyCompany[q] = c
        /\ policies[q].status \in {0, 1, 2} /\ ~policies[q].deleted

\* Company.total_coverage
CompanyTotalCoverage ==
    SumOver(CompanyCoverages,
            [c \in CompanyCoverages |-> COVERAGE_DATA[c].coverage_amount])

\* the companies a policy is asked for: c1, and c3, which offers every
\* coverage of the catalogue
RequestCompanies == {"c1", "c3"}

\* the sum of coverage_amount over the 34 rows of COVERAGE_DATA
FullCatalogueCoverage == 40755000

\* Company.total_coverage of company c
TotalCoverageOf(c) ==
    IF c = "c3" THEN FullCatalogueCoverage ELSE CompanyTotalCoverage

\* Patient.insurance_limit of a patient of class 3, the class a patient gets
\* who is created along with an appointment, a reservation or a policy
ClassLimit == 25000000

\* Patient.get_available_insurance_limit
AvailableLimit(p) ==
    LET active == {q \in PolicyIds :
                      /\ policies[q].exists /\ policies[q].patient = p
                      /\ policies[q].status \in {0, 1, 2}
                      /\ ~policies[q].deleted}
    IN ClassLimit - SumOver(active, [q \in active |-> policies[q].total_coverage])

\* POST policy (CreatePolicySerializer) for patient p and company c.  With
\* patient_nik of an existing patient validate() stops at the duplicate check
\* or, past it, at the unbound name `models` of line 250, before the limit is
\* compared.  Without patient_nik, create() reads
\* validated_data['patient_nik'] (line 276), which is not there, before it
\* has created anything.  No request creates a policy.
CreatePolicy(p, c) ==
    /\ p \in scope
    /\ Reply("CreatePolicy", c,
             IF p \in patients /\ HasActivePolicy(p, c)
             THEN "rejected" ELSE "error")
    /\ usPost' = NoCalls
    /\ UNCHANGED <<scope, shown, booked, patients, appts, presc, stock, resv, bills, policies,
                   pcov, bct, reqs, paidWith, written>>

\* A policy entered on the admin site (PolicyAdmin, PolicyCoverageAdmin) for
\* patient p, with the rows CreatePolicySerializer.create is written to
\* produce: status Created, total_coverage of the company, nothing covered,
\* one unused PolicyCoverage per coverage of the company
AdminCreatePolicy(p) ==
    /\ p \in scope
    /\ PolicyCount < Len(PolicySeq)
    /\ PolicySeq[PolicyCount + 1] \in scope
    /\ LET id == PolicySeq[PolicyCount + 1]
       IN /\ policies' = [policies EXCEPT ![id] =
                [exists |-> TRUE, patient |-> p, status |-> 0,
                 expired |-> FALSE, deleted |-> FALSE,
                 total_coverage |-> CompanyTotalCoverage,
                 total_covered |-> 0]]
          /\ pcov' = [pcov EXCEPT ![id] = [c \in CoverageIds |-> FALSE]]
    /\ patients' = patients \cup {p}
    /\ Served
    /\ usPost' = NoCalls
    /\ UNCHANGED <<scope, shown, booked, appts, presc, stock, resv, bills, bct, reqs, paidWith,
                   written>>

\* POST appointment (CreateAppointmentSerializer.create): the appointment
\* and its bill
CreateAppointment(a) ==
    /\ a \in scope
    /\ ~appts[a].exists
    /\ patients' = patients \cup {AppointmentPatient[a]}
    /\ appts' = [appts EXCEPT ![a] = [NoAppointment EXCEPT !.exists = TRUE]]
    /\ bills' = [bills EXCEPT ![AppointmentBill[a]] = NewBill(a, None)]
    /\ Served
    /\ usPost' = NoCalls
    /\ UNCHANGED <<scope, shown, booked, presc, stock, resv, policies, pcov, bct, reqs, paidWith, written>>

\* Reservation.calculate_total_fee
ReservationFee(withFacility) ==
    RoomCost + (IF withFacility THEN FacilityFee ELSE 0)

\* POST reservation without appointment (CreateReservationSerializer.create)
CreateReservation(withFacility) ==
    /\ "r1" \in scope
    /\ ~resv.exists
    /\ patients' = patients \cup {ReservationPatient}
    /\ resv' = [exists |-> TRUE, total_fee |-> ReservationFee(withFacility)]
    /\ bills' = [bills EXCEPT ![ReservationBill] = NewBill(None, "r1")]
    /\ Served
    /\ usPost' = NoCalls
    /\ UNCHANGED <<scope, shown, booked, appts, presc, stock, policies, pcov, bct, reqs, paidWith, written>>

\* POST prescription (CreatePrescriptionSerializer.create) for the appointment
CreatePrescription ==
    /\ "pr1" \in scope
    /\ ~presc.exists
    /\ appts[PrescriptionAppointment].exists
    /\ presc' = [exists |-> TRUE, status |-> 0, fulfilled |-> 0,
                 total_price |-> MedicinePrice * PrescQuantity]
    /\ Served
    /\ usPost' = NoCalls
    /\ UNCHANGED <<scope, shown, booked, patients, appts, stock, resv, bills, policies, pcov, bct,
                   reqs, paidWith, written>>

\* Bill.prescription is set by no API endpoint; the admin site (BillAdmin)
\* is the one place that links a prescription to the bill of its appointment
AdminLinkPrescription ==
    LET b == AppointmentBill[PrescriptionAppointment]
    IN /\ presc.exists /\ bills[b].exists
       /\ bills[b].prescription = None
       /\ bills' = [bills EXCEPT ![b].prescription = "pr1"]
       /\ Served
       /\ usPost' = NoCalls
       /\ UNCHANGED <<scope, shown, booked, patients, appts, presc, stock, resv, policies, pcov, bct,
                      reqs, paidWith, written>>

----------------------------------------------------------------------------
(* Appointment, prescription and reservation requests *)

BillsOfAppointment(a) ==
    {b \in Bills : bills[b].exists /\ bills[b].appointment = a}

\* PUT diagnosis and treatments (UpdateDiagnosisTreatmentSerializer.update)
UpdateDiagnosisTreatment(a, ts) ==
    /\ appts[a].exists
    /\ appts[a].status = 0
    /\ appts' = [appts EXCEPT
            ![a].treatments = ts,
            ![a].total_fee = SumOver(ts, [t \in ts |-> TREATMENT_DATA[t].price])]
    /\ Served
    /\ usPost' = NoCalls
    /\ UNCHANGED <<scope, shown, booked, patients, presc, stock, resv, bills, policies, pcov, bct,
                   reqs, paidWith, written>>

\* UpdateAppointmentStatusSerializer.validate; farAhead says that the
\* appointment is more than one day away
ValidStatusAction(a, action, farAhead) ==
    IF action = "done" THEN appts[a].treatments # {} ELSE farAhead

\* the post_save receiver update_bill_on_appointment_status_change
AppointmentSignal(B, a, A, P, R) ==
    [b \in Bills |->
        IF A[a].status = 1 /\ B[b].exists /\ B[b].appointment = a
        THEN update_status(B[b], A, P, R) ELSE B[b]]

\* a status update that saves the appointment and refreshes no bill
UpdateAppointmentStatus_NoRefresh(a, action, farAhead) ==
    /\ appts[a].exists
    /\ ValidStatusAction(a, action, farAhead)
    /\ appts' = [appts EXCEPT ![a].status = IF action = "done" THEN 1 ELSE 2]
    /\ usPost' = NoCalls
    /\ Served
    /\ UNCHANGED <<scope, shown, booked, patients, presc, stock, resv, bills, policies, pcov, bct,
                   reqs, paidWith, written>>

\* PUT appointment status (UpdateAppointmentStatusSerializer.update): the
\* save with its signal, then the explicit Bill.objects.get and update_status
UpdateAppointmentStatus(a, action, farAhead) ==
    /\ appts[a].exists
    /\ ValidStatusAction(a, action, farAhead)
    /\ LET A == [appts EXCEPT ![a].status = IF action = "done" THEN 1 ELSE 2]
           B1 == AppointmentSignal(bills, a, A, presc, resv)
           one == Cardinality(BillsOfAppointment(a)) = 1
           B2 == [b \in Bills |->
                    IF one /\ b \in BillsOfAppointment(a)
                    THEN update_status(B1[b], A, presc, resv)
                    ELSE B1[b]]
       IN /\ appts' = A
          /\ bills' = B2
          /\ usPost' = [b \in Bills |->
                IF b \in BillsOfAppointment(a) /\ (one \/ A[a].status = 1)
                THEN B2[b] ELSE NoBill]
          /\ Served
    /\ UNCHANGED <<scope, shown, booked, patients, presc, stock, resv, policies, pcov, bct, reqs,
                   paidWith, written>>

\* the post_save receiver update_bill_on_prescription_status_change
PrescriptionSignalBills(P) ==
    {b \in Bills :
        /\ P.status = 2
        /\ bills[b].exists
        /\ bills[b].appointment = PrescriptionAppointment
        /\ bills[b].prescription = "pr1"}

\* processing that hands out the whole stock when it covers the remaining
\* quantity
ProcessPrescription_WholeStock ==
    /\ presc.exists
    /\ presc.status \in {0, 1}
    /\ LET remaining == PrescQuantity - presc.fulfilled
           full == stock >= remaining
           P == [presc EXCEPT
                    !.fulfilled = @ + stock,
                    !.status = IF full THEN 2 ELSE 1]
       IN /\ stock' = 0
          /\ presc' = P
          /\ bills' = [b \in Bills |->
                IF b \in PrescriptionSignalBills(P)
                THEN update_status(bills[b], appts, P, resv)
                ELSE bills[b]]
          /\ usPost' = [b \in Bills |->
                IF b \in PrescriptionSignalBills(P) THEN bills'[b]
                ELSE NoBill]
          /\ Reply("ProcessPrescription", "pr1", "ok")
    /\ UNCHANGED <<scope, shown, booked, patients, appts, resv, policies, pcov, bct, reqs, paidWith,
                   written>>

\* POST process prescription (ProcessPrescriptionView.post and
\* ProcessPrescriptionSerializer.update)
ProcessPrescription ==
    /\ presc.exists
    /\ presc.status \in {0, 1}
    /\ LET remaining == PrescQuantity - presc.fulfilled
           full == stock >= remaining
           P == [presc EXCEPT
                    !.fulfilled = IF full THEN @ + remaining ELSE @ + stock,
                    !.status = IF full THEN 2 ELSE 1]
       IN /\ stock' = IF full THEN stock - remaining ELSE 0
          /\ presc' = P
          /\ bills' = [b \in Bills |->
                IF b \in PrescriptionSignalBills(P)
                THEN update_status(bills[b], appts, P, resv)
                ELSE bills[b]]
          /\ usPost' = [b \in Bills |->
                IF b \in PrescriptionSignalBills(P) THEN bills'[b]
                ELSE NoBill]
          /\ Reply("ProcessPrescription", "pr1", "ok")
    /\ UNCHANGED <<scope, shown, booked, patients, appts, resv, policies, pcov, bct, reqs, paidWith,
                   written>>

\* POST restock (MedicineRestockSerializer.create) of the medicine the
\* prescription asks for
Restock(q) ==
    /\ "pr1" \in scope
    /\ stock + q <= MaxStock
    /\ stock' = stock + q
    /\ Served
    /\ usPost' = NoCalls
    /\ UNCHANGED <<scope, shown, booked, patients, appts, presc, resv, bills, policies, pcov, bct,
                   reqs, paidWith, written>>

\* PUT reservation facilities (UpdateReservationFacilitiesSerializer);
\* beforeDateOut is its validate()
UpdateReservationFacilities(withFacility, beforeDateOut) ==
    /\ resv.exists
    /\ beforeDateOut
    /\ resv' = [resv EXCEPT !.total_fee = ReservationFee(withFacility)]
    /\ Served
    /\ usPost' = NoCalls
    /\ UNCHANGED <<scope, shown, booked, patients, appts, presc, stock, bills, policies, pcov, bct,
                   reqs, paidWith, written>>

----------------------------------------------------------------------------
(* Bill requests *)

\* a pass that adds the live fees to the stored components instead of
\* replacing them
SweepBill_Accumulates(bill, A, P, R) ==
    IF ~bill.exists \/ bill.status \notin {"TREATMENT_IN_PROGRESS", "UNPAID"}
    THEN bill
    ELSE [bill EXCEPT
            !.appointment_total_fee =
                IF bill.appointment # None /\ A[bill.appointment].status = 1
                THEN @ + A[bill.appointment].total_fee ELSE @,
            !.prescription_total_price =
                IF bill.prescription # None /\ P.status = 2
                THEN @ + P.total_price ELSE @,
            !.reservation_total_fee =
                IF bill.reservation # None THEN @ + R.total_fee ELSE @]

\* UpdateBillComponentsSerializer.create, the body of its loop for one bill:
\* the row stored when the pass over this bill ends
SweepBill(bill, A, P, R) ==
    IF ~bill.exists \/ bill.status \notin {"TREATMENT_IN_PROGRESS", "UNPAID"}
    THEN bill
    ELSE LET m == [bill EXCEPT
                    !.appointment_total_fee =
                        IF bill.appointment # None
                           /\ A[bill.appointment].status = 1
                        THEN A[bill.appointment].total_fee ELSE @,
                    !.prescription_total_price =
                        IF bill.prescription # None /\ P.status = 2
                        THEN P.total_price ELSE @,
                    !.reservation_total_fee =
                        IF bill.reservation # None THEN R.total_fee ELSE @]
             u == update_status(m, A, P, R)
         IN IF u.status # bill.status \/ u.subtotal # calculate_subtotal(u)
            THEN u ELSE bill

\* the row stored right after the update_status call of that pass
SweepBillCall(bill, A, P, R) ==
    LET s == SweepBill(bill, A, P, R)
    IN IF s.status # bill.status THEN s ELSE bill

\* POST update bill components (UpdateBillComponentsView.post)
UpdateBillComponents ==
    /\ bills' = [b \in Bills |-> SweepBill(bills[b], appts, presc, resv)]
    /\ usPost' = [b \in Bills |->
            IF bills[b].exists /\ bills[b].status # "PAID"
            THEN SweepBillCall(bills[b], appts, presc, resv) ELSE NoBill]
    /\ Reply("UpdateBillComponents", "-", "ok")
    /\ UNCHANGED <<scope, shown, booked, patients, appts, presc, stock, resv, policies, pcov, bct,
                   reqs, paidWith, written>>

\* the patient a bill is issued to
BillPatient(b) ==
    IF bills[b].appointment # None THEN AppointmentPatient[bills[b].appointment]
    ELSE ReservationPatient

\* the treatment lines of the bill's appointment that an unused
\* PolicyCoverage of policy p matches by name
CoveredTreatments(bill, p, A, PC) ==
    IF bill.appointment = None THEN {}
    ELSE {t \in A[bill.appointment].treatments : UnusedMatches(p, t, PC) # {}}

\* UpdateBillSerializer.validate_policy
validate_policy(b, p) ==
    \/ p = None
    \/ /\ policies[p].exists
       /\ policies[p].patient = BillPatient(b)
       /\ policies[p].status \in {0, 1}
       /\ \/ bills[b].appointment = None
          \/ CoveredTreatments(bills[b], p, appts, pcov) # {}

\* an attach that spends the matched PolicyCoverage lines at attach time
UpdateBill_MarksUsed(b, p) ==
    /\ bills[b].exists
    /\ IF ~validate_policy(b, p)
       THEN /\ Reply("UpdateBill", b, "rejected")
            /\ usPost' = NoCalls
            /\ UNCHANGED <<bills, bct, pcov>>
       ELSE LET attached == [bills[b] EXCEPT !.policy = p]
                updated == update_status(attached, appts, presc, resv)
                rewrite == p # None /\ updated.appointment # None
            IN /\ bills' = [bills EXCEPT ![b] = updated]
               /\ usPost' = [NoCalls EXCEPT ![b] = updated]
               /\ bct' = IF rewrite THEN {r \in bct : r.bill # b} ELSE bct
               /\ pcov' = IF rewrite
                    THEN [pcov EXCEPT ![p] = [c \in CoverageIds |->
                            \/ pcov[p][c]
                            \/ \E t \in CoveredTreatments(updated, p, appts, pcov) :
                                    c = FirstMatch(p, t, pcov)]]
                    ELSE pcov
               /\ Reply("UpdateBill", b, "ok")
    /\ UNCHANGED <<scope, shown, booked, patients, appts, presc, stock, resv, policies, reqs,
                   paidWith, written>>

\* PUT bill (UpdateBillView.put, UpdateBillSerializer.update): the policy is
\* saved on the bill, update_status runs, the bill's covered-treatment rows
\* are deleted, and the first matched treatment line then raises
\* AttributeError at line 159 (PolicyCoverage has no coverage_amount)
UpdateBill(b, p) ==
    /\ bills[b].exists
    /\ IF ~validate_policy(b, p)
       THEN /\ Reply("UpdateBill", b, "rejected")
            /\ usPost' = NoCalls
            /\ UNCHANGED <<bills, bct>>
       ELSE LET attached == [bills[b] EXCEPT !.policy = p]
                updated == update_status(attached, appts, presc, resv)
                rewrite == p # None /\ updated.appointment # None
            IN /\ bills' = [bills EXCEPT ![b] = updated]
               /\ usPost' = [NoCalls EXCEPT ![b] = updated]
               /\ bct' = IF rewrite THEN {r \in bct : r.bill # b} ELSE bct
               /\ Reply("UpdateBill", b,
                    IF rewrite /\ CoveredTreatments(updated, p, appts, pcov) # {}
                    THEN "error" ELSE "ok")
    /\ UNCHANGED <<scope, shown, booked, patients, appts, presc, stock, resv, policies, pcov, reqs,
                   paidWith, written>>

\* validate_bill_id that turns away only bills already Paid
validate_bill_id_NotPaid(bill) == bill.exists /\ bill.status # "PAID"

\* validate_bill_id without the status test of line 176
validate_bill_id_AnyStatus(bill) == bill.exists

\* PayBillSerializer.validate_bill_id
validate_bill_id(bill) == bill.exists /\ bill.status = "UNPAID"

\* Bill.pay run without interruption on the stored rows:
\* <<bill, policies, PolicyCoverage.used, rows, written, discount>> afterwards
pay(b, B, POL, PC, rows, W) ==
    LET bill == B[b]
        p == bill.policy
    IN IF bill.status # "UNPAID"
       THEN <<bill, POL, PC, rows, W, 0>>
       ELSE IF p = None \/ bill.appointment = None
       THEN <<[bill EXCEPT !.status = "PAID"], POL, PC, rows, W, 0>>
       ELSE LET covered == calculate_coverage_discount(bill, appts, PC)
                lines == PayLines(b, p, appts[bill.appointment].treatments,
                                  PC, rows, W)
            IN <<[bill EXCEPT !.status = "PAID"],
                 [POL EXCEPT ![p] = PolicyAfterPay(@, covered)],
                 lines[1], lines[2], lines[3], covered>>

\* POST pay (PayBillView.post, PayBillSerializer) as one uninterrupted request
PayBill(b) ==
    /\ \A r \in Requests : reqs[r].pc = "idle"
    /\ IF ~validate_bill_id(bills[b])
       THEN /\ Reply("PayBill", b, "rejected")
            /\ UNCHANGED <<bills, policies, pcov, bct, paidWith, written>>
       ELSE LET r == pay(b, bills, policies, pcov, bct, written)
            IN /\ bills' = [bills EXCEPT ![b] = r[1]]
               /\ policies' = r[2]
               /\ pcov' = r[3]
               /\ bct' = r[4]
               /\ written' = r[5]
               /\ paidWith' = IF bills[b].status = "UNPAID"
                    THEN [paidWith EXCEPT ![b] =
                            [paid |-> TRUE, policy |-> bills[b].policy,
                             discount |-> r[6]]]
                    ELSE paidWith
               /\ Reply("PayBill", b, "ok")
    /\ usPost' = NoCalls
    /\ UNCHANGED <<scope, shown, booked, patients, appts, presc, stock, resv, reqs>>

----------------------------------------------------------------------------
(* Policy requests *)

\* PUT policy status (UpdatePolicyStatusView.put), which repeats the rule of
\* Policy.update_status
UpdatePolicyStatusRule(pol) ==
    IF pol.expired /\ pol.status \notin {2, 4}
    THEN [pol EXCEPT !.status = 3]
    ELSE IF pol.total_covered >= pol.total_coverage /\ pol.status # 4
    THEN [pol EXCEPT !.status = 2]
    ELSE IF pol.total_covered > 0 /\ pol.status \notin {2, 3, 4}
    THEN [pol EXCEPT !.status = 1]
    ELSE pol

UpdatePolicyStatus(p) ==
    /\ policies[p].exists
    /\ policies' = [policies EXCEPT ![p] = UpdatePolicyStatusRule(@)]
    /\ Reply("UpdatePolicyStatus", p, "ok")
    /\ usPost' = NoCalls
    /\ UNCHANGED <<scope, shown, booked, patients, appts, presc, stock, resv, bills, pcov, bct, reqs,
                   paidWith, written>>

\* a cancel request without the status test of line 348
CancelPolicy_AnyStatus(p) ==
    /\ policies[p].exists
    /\ policies' = [policies EXCEPT ![p].status = 4]
    /\ Reply("CancelPolicy", p, "ok")
    /\ usPost' = NoCalls
    /\ UNCHANGED <<scope, shown, booked, patients, appts, presc, stock, resv, bills, pcov, bct, reqs,
                   paidWith, written>>

\* PUT cancel policy (CancelPolicyView.put)
CancelPolicy(p) ==
    /\ policies[p].exists
    /\ IF policies[p].status # 0
       THEN /\ Reply("CancelPolicy", p, "rejected")
            /\ UNCHANGED policies
       ELSE /\ policies' = [policies EXCEPT ![p].status = 4]
            /\ Reply("CancelPolicy", p, "ok")
    /\ usPost' = NoCalls
    /\ UNCHANGED <<scope, shown, booked, patients, appts, presc, stock, resv, bills, pcov, bct, reqs,
                   paidWith, written>>

\* PUT policy expiry date (UpdatePolicySerializer): the new date lies in the
\* future, then Policy.update_status
UpdatePolicyExpiry(p) ==
    /\ policies[p].exists
    /\ policies' = [policies EXCEPT ![p] =
            policy_update_status([@ EXCEPT !.expired = FALSE])]
    /\ Reply("UpdatePolicyExpiry", p, "ok")
    /\ usPost' = NoCalls
    /\ UNCHANGED <<scope, shown, booked, patients, appts, presc, stock, resv, bills, pcov, bct, reqs,
                   paidWith, written>>

\* the calendar passes the expiry date of policy p
ExpiryDatePasses(p) ==
    /\ policies[p].exists /\ ~policies[p].expired
    /\ policies' = [policies EXCEPT ![p].expired = TRUE]
    /\ Served
    /\ usPost' = NoCalls
    /\ UNCHANGED <<scope, shown, booked, patients, appts, presc, stock, resv, bills, pcov, bct, reqs,
                   paidWith, written>>

\* the expiry sweep without its status__in=[0, 1] filter
update_expired_policies_AnyStatus ==
    /\ policies' = [p \in PolicyIds |->
            IF policies[p].exists /\ policies[p].expired /\ ~policies[p].deleted
            THEN [policies[p] EXCEPT !.status = 3] ELSE policies[p]]
    /\ Served
    /\ usPost' = NoCalls
    /\ UNCHANGED <<scope, shown, booked, patients, appts, presc, stock, resv, bills, pcov, bct, reqs,
                   paidWith, written>>

\* GET policies: PolicyListView.update_expired_policies
update_expired_policies ==
    /\ policies' = [p \in PolicyIds |->
            IF policies[p].exists /\ policies[p].expired
               /\ policies[p].status \in {0, 1} /\ ~policies[p].deleted
            THEN [policies[p] EXCEPT !.status = 3] ELSE policies[p]]
    /\ Served
    /\ usPost' = NoCalls
    /\ UNCHANGED <<scope, shown, booked, patients, appts, presc, stock, resv, bills, pcov, bct, reqs,
                   paidWith, written>>

----------------------------------------------------------------------------
(* The payment request, statement by statement *)

\* The database states the payment requests below start from: both
\* appointments of patient p1 are Done with treatment lists ts1 and ts2, their
\* bills are Unpaid, the policy of p1 is attached to the first bill and, when
\* att2 holds, to the second one as well.
PayReady(ts1, ts2, att2) ==
    LET fee(ts) == SumOver(ts, [t \in ts |-> TREATMENT_DATA[t].price])
        appt(ts) == [exists |-> TRUE, status |-> 1, treatments |-> ts,
                     total_fee |-> fee(ts)]
        bill(a, ts, pol) ==
            [NewBill(a, None) EXCEPT !.policy = pol, !.status = "UNPAID",
                                     !.appointment_total_fee = fee(ts)]
    IN /\ scope = {"a1", "a2", "pol1", "p1"}
       /\ patients = {"p1"}
       /\ appts = ("a1" :> appt(ts1)) @@ ("a2" :> appt(ts2))
       /\ presc = NoPrescription
       /\ stock = 0
       /\ resv = NoReservation
       /\ bills = ("b1" :> bill("a1", ts1, "pol1")) @@
                  ("b2" :> bill("a2", ts2, IF att2 THEN "pol1" ELSE None)) @@
                  ("b3" :> NoBill)
       /\ policies = [p \in PolicyIds |->
                IF p = "pol1"
                THEN [exists |-> TRUE, patient |-> "p1", status |-> 0,
                      expired |-> FALSE, deleted |-> FALSE,
                      total_coverage |-> CompanyTotalCoverage,
                      total_covered |-> 0]
                ELSE NoPolicy]
       /\ pcov = [p \in PolicyIds |-> [c \in CoverageIds |-> FALSE]]
       /\ bct = {}
       /\ last = [op |-> "other", arg |-> "-", resp |-> "ok"]
       /\ usPost = NoCalls
       /\ paidWith = [b \in Bills |-> NotPaid]
       /\ written = [p \in PolicyIds |-> [c \in CoverageIds |-> 0]]
       /\ shown = NothingShown
       /\ booked = {}

InitPay ==
    /\ \E ts1 \in TreatmentChoices, ts2 \in TreatmentChoices, att2 \in BOOLEAN :
            PayReady(ts1, ts2, att2)
    /\ reqs = [r \in Requests |-> IdleRequest]

\* the variables a payment request leaves alone
PayFrame == UNCHANGED <<scope, shown, booked, patients, appts, presc, stock, resv, last, usPost>>

\* PayBillSerializer.validate_bill_id: the request reads the bill row
PayValidate(r, b) ==
    /\ reqs[r].pc = "idle"
    /\ reqs' = [reqs EXCEPT ![r] =
            IF validate_bill_id(bills[b])
            THEN [@ EXCEPT !.pc = "pay", !.bill_id = b, !.bill = bills[b],
                           !.snap = <<bills, policies, pcov, bct>>]
            ELSE [@ EXCEPT !.pc = "done", !.bill_id = b, !.resp = "rejected",
                           !.snap = <<bills, policies, pcov, bct>>]]
    /\ UNCHANGED <<bills, policies, pcov, bct, paidWith, written>>
    /\ PayFrame

\* Bill.pay, lines 107-119: the status test on the object in memory, the
\* policy row it loads, the discount it computes and the new totals it puts
\* on the loaded policy
PayStart(r) ==
    /\ reqs[r].pc = "pay"
    /\ LET bill == reqs[r].bill
           p == bill.policy
       IN reqs' = [reqs EXCEPT ![r] =
            IF bill.status # "UNPAID"
            THEN [@ EXCEPT !.pc = "done", !.resp = "ok"]
            ELSE IF p = None \/ bill.appointment = None
            THEN [@ EXCEPT !.pc = "save", !.bill.status = "PAID"]
            ELSE LET covered == calculate_coverage_discount(bill, appts, pcov)
                 IN [@ EXCEPT
                        !.pc = "policy",
                        !.bill.status = "PAID",
                        !.covered = covered,
                        !.policy = [policies[p] EXCEPT
                            !.total_covered = @ + covered,
                            !.status = IF @ = 0 THEN 1 ELSE @]]]
    /\ UNCHANGED <<bills, policies, pcov, bct, paidWith, written>>
    /\ PayFrame

\* Bill.pay, line 121: Policy.update_status saves the loaded policy
PaySavePolicy(r) ==
    /\ reqs[r].pc = "policy"
    /\ LET bill == reqs[r].bill
           saved == policy_update_status(reqs[r].policy)
       IN /\ policies' = [policies EXCEPT ![bill.policy] = saved]
          /\ reqs' = [reqs EXCEPT ![r] =
                [@ EXCEPT !.pc = "loop", !.policy = saved,
                          !.todo = appts[bill.appointment].treatments]]
    /\ UNCHANGED <<bills, pcov, bct, paidWith, written>>
    /\ PayFrame

\* Bill.pay, lines 124-131: the query of one pass of the loop
PayQuery(r) ==
    /\ reqs[r].pc = "loop"
    /\ reqs[r].todo # {}
    /\ LET p == reqs[r].bill.policy
           t == CHOOSE x \in reqs[r].todo : \A y \in reqs[r].todo : x <= y
       IN reqs' = [reqs EXCEPT ![r] =
            IF UnusedMatches(p, t, pcov) = {}
            THEN [@ EXCEPT !.todo = @ \ {t}]
            ELSE [@ EXCEPT !.pc = "mark", !.match = FirstMatch(p, t, pcov)]]
    /\ UNCHANGED <<bills, policies, pcov, bct, paidWith, written>>
    /\ PayFrame

\* Bill.pay, lines 132-143: the PolicyCoverage found is saved as used and
\* the BillCoveredTreatment row is created
PayMark(r) ==
    /\ reqs[r].pc = "mark"
    /\ LET p == reqs[r].bill.policy
           c == reqs[r].match
           t == CHOOSE x \in reqs[r].todo : \A y \in reqs[r].todo : x <= y
       IN /\ pcov' = [pcov EXCEPT ![p][c] = TRUE]
          /\ bct' = AddRow(bct, reqs[r].bill_id, t, CoverageAmount(t, c))
          /\ written' = [written EXCEPT ![p][c] = @ + 1]
          /\ reqs' = [reqs EXCEPT ![r] =
                [@ EXCEPT !.pc = "loop", !.match = 0, !.todo = @ \ {t}]]
    /\ UNCHANGED <<bills, policies, paidWith>>
    /\ PayFrame

\* Bill.pay, line 145, and PayBillSerializer.create, line 199: the bill
\* object in memory is saved
PaySave(r) ==
    /\ \/ reqs[r].pc = "save"
       \/ reqs[r].pc = "loop" /\ reqs[r].todo = {}
    /\ LET b == reqs[r].bill_id
       IN /\ bills' = [bills EXCEPT ![b] = reqs[r].bill]
          /\ paidWith' = [paidWith EXCEPT ![b] =
                [paid |-> TRUE, policy |-> reqs[r].bill.policy,
                 discount |-> reqs[r].covered]]
    /\ reqs' = [reqs EXCEPT ![r] = [@ EXCEPT !.pc = "done", !.resp = "ok"]]
    /\ UNCHANGED <<policies, pcov, bct, written>>
    /\ PayFrame

\* the request dies between two statements of Bill.pay (database error,
\* worker killed): no statement of pay is inside a transaction, so what was
\* saved stays saved
PayFail(r) ==
    /\ reqs[r].pc \in {"policy", "loop", "mark", "save"}
    /\ reqs' = [reqs EXCEPT ![r] = [@ EXCEPT !.pc = "done", !.resp = "failed"]]
    /\ UNCHANGED <<bills, policies, pcov, bct, paidWith, written>>
    /\ PayFrame

\* no other payment request is in flight
Alone(r) == \A q \in Requests \ {r} : reqs[q].pc \in {"idle", "done"}

\* two payment requests served by different workers
NextConc ==
    \/ \E r \in Requests, b \in Bills : PayValidate(r, b)
    \/ \E r \in Requests : PayStart(r)
    \/ \E r \in Requests : PaySavePolicy(r)
    \/ \E r \in Requests : PayQuery(r)
    \/ \E r \in Requests : PayMark(r)
    \/ \E r \in Requests : PaySave(r)

SpecConc == InitPay /\ [][NextConc]_vars

\* payment requests served one after the other, each of which may die
NextFail ==
    \/ \E r \in Requests, b \in Bills : Alone(r) /\ PayValidate(r, b)
    \/ \E r \in Requests : Alone(r) /\ PayStart(r)
    \/ \E r \in Requests : Alone(r) /\ PaySavePolicy(r)
    \/ \E r \in Requests : Alone(r) /\ PayQuery(r)
    \/ \E r \in Requests : Alone(r) /\ PayMark(r)
    \/ \E r \in Requests : Alone(r) /\ PaySave(r)
    \/ \E r \in Requests : Alone(r) /\ PayFail(r)

SpecFail == InitPay /\ [][NextFail]_vars

----------------------------------------------------------------------------
(* The sequential system: requests run one at a time *)

Next ==
    \/ \E p \in Patients, c \in RequestCompanies : CreatePolicy(p, c)
    \/ \E p \in Patients : AdminCreatePolicy(p)
    \/ \E a \in Appointments : CreateAppointment(a)
    \/ \E f \in BOOLEAN : CreateReservation(f)
    \/ CreatePrescription
    \/ AdminLinkPrescription
    \/ \E a \in Appointments, ts \in TreatmentChoices :
            UpdateDiagnosisTreatment(a, ts)
    \/ \E a \in Appointments, action \in StatusActions, far \in BOOLEAN :
            UpdateAppointmentStatus(a, action, far)
    \/ ProcessPrescription
    \/ \E q \in 1..MaxStock : Restock(q)
    \/ \E f \in BOOLEAN, open \in BOOLEAN : UpdateReservationFacilities(f, open)
    \/ UpdateBillComponents
    \/ \E b \in Bills, p \in PolicyIds \cup {None} : UpdateBill(b, p)
    \/ \E b \in Bills : PayBill(b)
    \/ \E p \in PolicyIds : UpdatePolicyStatus(p)
    \/ \E p \in PolicyIds : CancelPolicy(p)
    \/ \E p \in PolicyIds : UpdatePolicyExpiry(p)
    \/ \E p \in PolicyIds : ExpiryDatePasses(p)
    \/ update_expired_policies

Spec == Init /\ [][Next]_vars

----------------------------------------------------------------------------
(* The coverage discount as the bill serializers show it *)

\* GET bill (BillSerializer.get_coverage_discount and
\* BillDetailSerializer.get_coverage_discount): the response carries
\* obj.calculate_coverage_discount(); nothing is written
GetBill(b) ==
    /\ bills[b].exists
    /\ shown' = [bill |-> b,
                 discount |-> calculate_coverage_discount(bills[b], appts, pcov)]
    /\ UNCHANGED <<booked, scope, patients, appts, presc, stock, resv, bills, policies,
                   pcov, bct, reqs, last, usPost, paidWith, written>>

\* patient p2 has a reservation and a policy (status Created) that has been
\* attached to the reservation's bill; the attach request ran update_status,
\* which made the bill Unpaid
ReservationReady(withFacility) ==
    LET r == [exists |-> TRUE, total_fee |-> ReservationFee(withFacility)]
        b3 == update_status([NewBill(None, "r1") EXCEPT !.policy = "pol1"],
                            [a \in Appointments |-> NoAppointment],
                            NoPrescription, r)
    IN /\ scope = {"r1", "pol1", "p2"}
       /\ patients = {"p2"}
       /\ appts = [a \in Appointments |-> NoAppointment]
       /\ presc = NoPrescription
       /\ stock = 0
       /\ resv = r
       /\ bills = [b \in Bills |-> IF b = ReservationBill THEN b3 ELSE NoBill]
       /\ policies = [p \in PolicyIds |->
                IF p = "pol1"
                THEN [exists |-> TRUE, patient |-> "p2", status |-> 0,
                      expired |-> FALSE, deleted |-> FALSE,
                      total_coverage |-> CompanyTotalCoverage,
                      total_covered |-> 0]
                ELSE NoPolicy]
       /\ pcov = [p \in PolicyIds |-> [c \in CoverageIds |-> FALSE]]
       /\ bct = {}
       /\ last = [op |-> "UpdateBill", arg |-> ReservationBill, resp |-> "ok"]
       /\ usPost = [NoCalls EXCEPT ![ReservationBill] = b3]
       /\ paidWith = [b \in Bills |-> NotPaid]
       /\ written = [p \in PolicyIds |-> [c \in CoverageIds |-> 0]]
       /\ shown = NothingShown
       /\ booked = {}

InitDiscount ==
    /\ \/ \E ts1 \in TreatmentChoices, ts2 \in TreatmentChoices, att2 \in BOOLEAN :
            PayReady(ts1, ts2, att2)
       \/ \E f \in BOOLEAN : ReservationReady(f)
    /\ reqs = [r \in Requests |-> IdleRequest]

\* bills are paid and shown in any order
NextDiscount ==
    \/ \E b \in Bills : PayBill(b)
    \/ \E b \in Bills : GetBill(b)

SpecDiscount == InitDiscount /\ [][NextDiscount]_vars

----------------------------------------------------------------------------
(* A treatment list revised after the policy was attached *)

\* patient p1 has a policy in status Created and an appointment in status
\* Created with treatment X-ray; the policy has been attached to the
\* appointment's bill, which is still in TreatmentInProgress (the attach
\* request stored the policy link before it failed at line 159)
AttachedReady ==
    LET b1 == [NewBill("a1", None) EXCEPT !.policy = "pol1"]
    IN /\ scope = {"a1", "a2", "pol1", "p1"}
       /\ patients = {"p1"}
       /\ appts = [a \in Appointments |->
                IF a = "a1"
                THEN [exists |-> TRUE, status |-> 0, treatments |-> {1},
                      total_fee |-> TREATMENT_DATA[1].price]
                ELSE NoAppointment]
       /\ presc = NoPrescription
       /\ stock = 0
       /\ resv = NoReservation
       /\ bills = [b \in Bills |-> IF b = "b1" THEN b1 ELSE NoBill]
       /\ policies = [p \in PolicyIds |->
                IF p = "pol1"
                THEN [exists |-> TRUE, patient |-> "p1", status |-> 0,
                      expired |-> FALSE, deleted |-> FALSE,
                      total_coverage |-> CompanyTotalCoverage,
                      total_covered |-> 0]
                ELSE NoPolicy]
       /\ pcov = [p \in PolicyIds |-> [c \in CoverageIds |-> FALSE]]
       /\ bct = {}
       /\ reqs = [r \in Requests |-> IdleRequest]
       /\ last = [op |-> "UpdateBill", arg |-> "b1", resp |-> "error"]
       /\ usPost = [NoCalls EXCEPT !["b1"] = b1]
       /\ paidWith = [b \in Bills |-> NotPaid]
       /\ written = [p \in PolicyIds |-> [c \in CoverageIds |-> 0]]
       /\ shown = NothingShown
       /\ booked = {}

\* the doctor revises the treatment list, the appointment is closed, the bill
\* is swept and paid, the policy is re-evaluated
NextRevised ==
    \/ \E ts \in RevisedTreatments : UpdateDiagnosisTreatment("a1", ts)
    \/ \E action \in StatusActions, far \in BOOLEAN :
            UpdateAppointmentStatus("a1", action, far)
    \/ UpdateBillComponents
    \/ \E b \in Bills : PayBill(b)
    \/ \E p \in PolicyIds : UpdatePolicyStatus(p)
    \/ \E p \in PolicyIds : ExpiryDatePasses(p)

SpecRevised == AttachedReady /\ [][NextRevised]_vars

----------------------------------------------------------------------------
(* Appointment ids *)

\* two doctors of the same specialization
Doctors == {"d1", "d2"}
DoctorSpecialization == ("d1" :> 1) @@ ("d2" :> 1)

\* the first three rows of specialty_codes
specialty_codes == (0 :> "UMM") @@ (1 :> "GGI") @@ (2 :> "ANK")

\* specialty_codes.get(doctor.specialization, "UMM")
specialty_code(doctor) ==
    LET s == DoctorSpecialization[doctor]
    IN IF s \in DOMAIN specialty_codes THEN specialty_codes[s] ELSE "UMM"

\* the dates and the times of day requests ask for
Dates == { [day |-> 1, month |-> 12, year |-> 2026],
           [day |-> 2, month |-> 12, year |-> 2026] }
Times == {"09:00", "10:00"}

RECURSIVE Digits(_)
Digits(n) == IF n < 10 THEN 1 ELSE 1 + Digits(n \div 10)

RECURSIVE Zeros(_)
Zeros(k) == IF k <= 0 THEN "" ELSE "0" \o Zeros(k - 1)

\* str(n).zfill(width)
zfill(n, width) == Zeros(width - Digits(n)) \o ToString(n)

\* date.strftime("%d%m")
strftime_ddmm(date) == zfill(date.day, 2) \o zfill(date.month, 2)

\* the rows of a doctor on a calendar day that are not soft-deleted
same_day_appointments(doctor, date) ==
    {r \in booked : r.doctor = doctor /\ r.date = date /\ ~r.deleted}

\* the id CreateAppointmentSerializer.create builds
appointment_id(doctor, date) ==
    specialty_code(doctor) \o strftime_ddmm(date) \o
        zfill(Cardinality(same_day_appointments(doctor, date)) + 1, 3)

\* POST appointment for an existing patient, as far as the appointment table
\* goes: validate() refuses a slot a live row of the doctor holds; create()
\* builds the id and inserts the row. The insert fails on the primary key
\* when a row (deleted or not) has the id, and on unique_together when a
\* soft-deleted row holds the doctor's slot; the transaction is rolled back.
PostAppointment(doctor, date, time) ==
    LET id == appointment_id(doctor, date)
        taken == \E r \in booked :
                    r.doctor = doctor /\ r.date = date /\ r.time = time
                        /\ ~r.deleted
        integrity == \E r \in booked :
                        \/ r.id = id
                        \/ r.doctor = doctor /\ r.date = date /\ r.time = time
    IN /\ "p1" \in patients
       /\ IF taken
          THEN /\ Reply("PostAppointment", "-", "rejected")
               /\ UNCHANGED booked
          ELSE IF integrity
          THEN /\ Reply("PostAppointment", id, "error")
               /\ UNCHANGED booked
          ELSE /\ Reply("PostAppointment", id, "ok")
               /\ booked' = booked \cup
                    {[id |-> id, doctor |-> doctor, date |-> date,
                      time |-> time, deleted |-> FALSE]}
       /\ usPost' = NoCalls
       /\ UNCHANGED <<scope, shown, patients, appts, presc, stock, resv, bills,
                      policies, pcov, bct, reqs, paidWith, written>>

\* DELETE appointment (AppointmentDetailView.perform_destroy): soft delete of
\* a row that is not deleted yet
DeleteAppointment(row) ==
    /\ row \in booked
    /\ ~row.deleted
    /\ booked' = (booked \ {row}) \cup {[row EXCEPT !.deleted = TRUE]}
    /\ Reply("DeleteAppointment", row.id, "ok")
    /\ usPost' = NoCalls
    /\ UNCHANGED <<scope, shown, patients, appts, presc, stock, resv, bills,
                   policies, pcov, bct, reqs, paidWith, written>>

\* patient p1 has signed up; there is no appointment yet
InitIds ==
    /\ scope = {"a1", "a2", "pol1", "p1"}
    /\ patients = {"p1"}
    /\ appts = [a \in Appointments |-> NoAppointment]
    /\ presc = NoPrescription
    /\ stock = 0
    /\ resv = NoReservation
    /\ bills = [b \in Bills |-> NoBill]
    /\ policies = [p \in PolicyIds |-> NoPolicy]
    /\ pcov = [p \in PolicyIds |-> [c \in CoverageIds |-> FALSE]]
    /\ bct = {}
    /\ reqs = [r \in Requests |-> IdleRequest]
    /\ last = [op |-> "init", arg |-> None, resp |-> "ok"]
    /\ usPost = NoCalls
    /\ paidWith = [b \in Bills |-> NotPaid]
    /\ written = [p \in PolicyIds |-> [c \in CoverageIds |-> 0]]
    /\ shown = NothingShown
    /\ booked = {}

NextIds ==
    \/ \E doctor \in Doctors, date \in Dates, time \in Times :
            PostAppointment(doctor, date, time)
    \/ \E row \in booked : DeleteAppointment(row)

SpecIds == InitIds /\ [][NextIds]_vars

----------------------------------------------------------------------------
(* Properties *)

\* C1: right after any call of Bill.update_status, whether or not it changed
\* the status, the stored subtotal of the bill equals the sum of its stored
\* appointment_total_fee, prescription_total_price and reservation_total_fee.
C1_SubtotalIsSumOfComponents ==
    \A b \in Bills :
        usPost[b].exists =>
            usPost[b].subtotal =
                usPost[b].appointment_total_fee
                    + usPost[b].prescription_total_price
                    + usPost[b].reservation_total_fee

\* C2: every bill that pay() moved to Paid has total_amount_due equal to its
\* subtotal minus the coverage discount computed at payment time (0 without
\* policy or appointment).
C2_PaidAmountDueIsSubtotalMinusDiscount ==
    \A b \in Bills :
        (bills[b].status = "PAID" /\ paidWith[b].paid) =>
            bills[b].total_amount_due = bills[b].subtotal - paidWith[b].discount

\* C3: when two concurrent payment requests on the same Unpaid bill have both
\* ended, exactly one of them succeeded and the other was rejected because
\* the bill was no longer Unpaid; the policy's total_covered was incremented
\* once, by the discount of the payment, and every PolicyCoverage accounts
\* for at most one BillCoveredTreatment row.
C3_ExactlyOnePaymentSucceeds ==
    \A b \in Bills :
        (/\ bills[b].exists
         /\ \A r \in Requests : reqs[r].pc = "done" /\ reqs[r].bill_id = b) =>
            /\ Cardinality({r \in Requests : reqs[r].resp = "ok"}) = 1
            /\ Cardinality({r \in Requests : reqs[r].resp = "rejected"}) = 1
            /\ bills[b].status = "PAID"
            /\ bills[b].policy # None =>
                /\ policies[bills[b].policy].total_covered = paidWith[b].discount
                /\ \A c \in CoverageIds : written[bills[b].policy][c] <= 1

\* C4: pay() called twice in sequence on the same bill: the call on the
\* Unpaid bill moves it to Paid and consumes the matching coverage; the call
\* on the bill already Paid is answered with an error and changes no bill,
\* policy, PolicyCoverage or BillCoveredTreatment row.
C4_SecondPayChangesNothing ==
    [][\A b \in Bills :
        (last'.op = "PayBill" /\ last'.arg = b /\ bills[b].exists) =>
            /\ bills[b].status = "UNPAID" =>
                /\ last'.resp = "ok"
                /\ bills'[b].status = "PAID"
                /\ (bills[b].policy # None /\ bills[b].appointment # None) =>
                    /\ policies'[bills[b].policy].total_covered =
                          policies[bills[b].policy].total_covered
                              + paidWith'[b].discount
                    /\ \A t \in appts[bills[b].appointment].treatments :
                          \A c \in CompanyCoverages :
                              COVERAGE_DATA[c].name = TREATMENT_DATA[t].name
                                  => pcov'[bills[b].policy][c]
            /\ bills[b].status = "PAID" =>
                /\ last'.resp = "rejected"
                /\ UNCHANGED <<bills, policies, pcov, bct>>]_vars

\* a second payment request on a bill whose first payment consumed coverage
C4_Witness ==
    \E b \in Bills :
        /\ last = [op |-> "PayBill", arg |-> b, resp |-> "rejected"]
        /\ bills[b].status = "PAID"
        /\ paidWith[b].paid /\ paidWith[b].discount > 0

\* C5: every policy keeps 0 <= total_covered <= total_coverage in every
\* reachable state.
C5_CoveredWithinCoverage ==
    \A p \in PolicyIds :
        policies[p].exists =>
            /\ 0 <= policies[p].total_covered
            /\ policies[p].total_covered <= policies[p].total_coverage

\* C6: a payment request that fails at an intermediate step of pay() leaves
\* the policy rows, the PolicyCoverage.used flags, the BillCoveredTreatment
\* rows and the bill rows as they were before the request.
C6_FailedPayLeavesNoTrace ==
    [][\A r \in Requests :
        (reqs[r].resp # "failed" /\ reqs'[r].resp = "failed") =>
            <<bills', policies', pcov', bct'>> = reqs[r].snap]_vars

\* C7: a PolicyCoverage that is used never becomes unused again, and at most
\* one BillCoveredTreatment row is ever written on account of one
\* PolicyCoverage.
C7_CoverageConsumedOnce ==
    [][\A p \in PolicyIds, c \in CoverageIds :
        /\ pcov[p][c] => pcov'[p][c]
        /\ written'[p][c] <= 1]_vars

\* C8: the status of a bill only moves TreatmentInProgress -> Unpaid -> Paid,
\* one step at a time: it never moves backwards and never goes from
\* TreatmentInProgress directly to Paid.
C8_BillStatusForwardOnly ==
    [][\A b \in Bills :
        IF bills[b].exists
        THEN \/ bills'[b].status = bills[b].status
             \/ bills[b].status = "TREATMENT_IN_PROGRESS"
                    /\ bills'[b].status = "UNPAID"
             \/ bills[b].status = "UNPAID" /\ bills'[b].status = "PAID"
        ELSE bills'[b].exists => bills'[b].status = "TREATMENT_IN_PROGRESS"]_vars

\* a policy-attach request, which calls update_status, was served for a bill
\* that is Paid
C8_Witness ==
    \E b \in Bills :
        /\ bills[b].status = "PAID"
        /\ last.op = "UpdateBill" /\ last.arg = b /\ last.resp # "rejected"
        /\ usPost[b].exists

\* C9: a call of update_status on a bill in TreatmentInProgress moves it to
\* Unpaid if and only if the linked appointment, if any, is Done and the
\* linked prescription, if any, is Done; in every other case the call leaves
\* the stored bill as it was.
C9_UnpaidIffServicesDone ==
    [][\A b \in Bills :
        (bills[b].exists /\ usPost'[b].exists) =>
            LET u == usPost'[b]
                \* the stored row when update_status is called: an attach
                \* request has saved the policy link by then
                pre == [bills[b] EXCEPT !.policy = u.policy]
                done ==
                    /\ u.appointment # None => appts'[u.appointment].status = 1
                    /\ u.prescription # None => presc'.status = 2
            IN IF pre.status = "TREATMENT_IN_PROGRESS" /\ done
               THEN u.status = "UNPAID"
               ELSE u = pre]_vars

\* update_status was called on a bill whose appointment is Done and whose
\* prescription is not, and left it in TreatmentInProgress
C9_Witness ==
    \E b \in Bills :
        /\ usPost[b].exists
        /\ usPost[b].status = "TREATMENT_IN_PROGRESS"
        /\ usPost[b].appointment # None
        /\ appts[usPost[b].appointment].status = 1
        /\ usPost[b].prescription # None
        /\ presc.status # 2

\* C10: when update_status moves a bill from TreatmentInProgress to Unpaid,
\* the stored subtotal is the sum of the fees the linked appointment,
\* prescription and reservation carry at that moment (0 for an absent link),
\* whatever the cached components were, and total_amount_due equals it.
C10_SubtotalFromLiveFees ==
    [][\A b \in Bills :
        (/\ bills[b].exists
         /\ bills[b].status = "TREATMENT_IN_PROGRESS"
         /\ usPost'[b].exists
         /\ usPost'[b].status = "UNPAID") =>
            LET u == usPost'[b]
                live ==
                    (IF u.appointment # None
                     THEN appts'[u.appointment].total_fee ELSE 0)
                    + (IF u.prescription # None THEN presc'.total_price ELSE 0)
                    + (IF u.reservation # None THEN resv'.total_fee ELSE 0)
            IN /\ u.subtotal = live
               /\ u.total_amount_due = u.subtotal]_vars

\* C11: a payment request for a bill that is not Unpaid (in
\* TreatmentInProgress or Paid) is answered with an error and changes no
\* bill, policy, PolicyCoverage or BillCoveredTreatment row.
C11_PayOnNonUnpaidRejected ==
    [][\A b \in Bills :
        (/\ last'.op = "PayBill" /\ last'.arg = b
         /\ bills[b].exists
         /\ bills[b].status \in {"TREATMENT_IN_PROGRESS", "PAID"}) =>
            /\ last'.resp = "rejected"
            /\ bills' = bills
            /\ policies' = policies
            /\ pcov' = pcov
            /\ bct' = bct]_vars

\* a payment request was turned away for a bill in TreatmentInProgress that
\* has a policy attached
C11_Witness ==
    \E b \in Bills :
        /\ last = [op |-> "PayBill", arg |-> b, resp |-> "rejected"]
        /\ bills[b].exists
        /\ bills[b].status = "TREATMENT_IN_PROGRESS"
        /\ bills[b].policy # None

C13_PaidBillFrozen ==
    [][\A b \in Bills :
        bills[b].status = "PAID" =>
            /\ bills'[b].status = "PAID"
            /\ bills'[b].subtotal = bills[b].subtotal
            /\ bills'[b].total_amount_due = bills[b].total_amount_due
            /\ {r \in bct' : r.bill = b} = {r \in bct : r.bill = b}]_vars

\* C14: an attach request is rejected, and leaves the bill and its
\* covered-treatment rows as they were, whenever the policy belongs to
\* another patient, is not Created or PartiallyClaimed, or matches no
\* treatment line of the bill's appointment with an unused PolicyCoverage;
\* every other attach request completes: none ends in an error with the bill
\* partially updated.
C14_AttachRejectedOrComplete ==
    [][\A b \in Bills :
        (last'.op = "UpdateBill" /\ last'.arg = b) =>
            \/ /\ last'.resp = "rejected"
               /\ bills' = bills
               /\ bct' = bct
            \/ /\ last'.resp = "ok"
               /\ LET p == bills'[b].policy
                      a == bills[b].appointment
                  IN \/ p = None
                     \/ /\ policies[p].patient = BillPatient(b)
                        /\ policies[p].status \in {0, 1}
                        /\ a # None =>
                             \E t \in appts[a].treatments :
                                \E c \in CompanyCoverages :
                                    /\ COVERAGE_DATA[c].name
                                          = TREATMENT_DATA[t].name
                                    /\ ~pcov[p][c]]_vars

\* C15: after a policy has been attached to an Unpaid bill that has an
\* appointment, total_amount_due of the bill equals its subtotal minus the
\* discount obtainable from the unused coverage lines of that policy.
C15_DiscountAppliedOnAttach ==
    [][\A b \in Bills :
        (/\ last'.op = "UpdateBill" /\ last'.arg = b
         /\ last'.resp # "rejected"
         /\ bills[b].status = "UNPAID"
         /\ bills[b].appointment # None
         /\ bills'[b].policy # None) =>
            LET p == bills'[b].policy
                ts == appts[bills[b].appointment].treatments
                contrib == [t \in ts |->
                    IF \E c \in CompanyCoverages :
                          /\ COVERAGE_DATA[c].name = TREATMENT_DATA[t].name
                          /\ ~pcov[p][c]
                    THEN LET c == CHOOSE c \in CompanyCoverages :
                                /\ COVERAGE_DATA[c].name = TREATMENT_DATA[t].name
                                /\ ~pcov[p][c]
                         IN Min(TREATMENT_DATA[t].price,
                                COVERAGE_DATA[c].coverage_amount)
                    ELSE 0]
            IN bills'[b].total_amount_due
                  = bills'[b].subtotal - SumOver(ts, contrib)]_vars

\* C16: calculate_coverage_discount returns the sum, over the treatment lines
\* of the bill's appointment, of min(treatment price, coverage amount) for the
\* unused PolicyCoverage of the bill's policy that matches the line by name,
\* a line without such a match adding 0; it returns 0 when the bill has no
\* policy or no appointment; and it changes no stored row.
C16_DiscountIsSumOfUnusedMatches ==
    [][shown' # shown =>
        LET bill == bills[shown'.bill]
            expected ==
                IF bill.policy = None \/ bill.appointment = None THEN 0
                ELSE LET ts == appts[bill.appointment].treatments
                         line == [t \in ts |->
                            IF \E c \in CompanyCoverages :
                                  /\ COVERAGE_DATA[c].name = TREATMENT_DATA[t].name
                                  /\ ~pcov[bill.policy][c]
                            THEN LET c == CHOOSE c \in CompanyCoverages :
                                    /\ COVERAGE_DATA[c].name = TREATMENT_DATA[t].name
                                    /\ ~pcov[bill.policy][c]
                                 IN Min(TREATMENT_DATA[t].price,
                                        COVERAGE_DATA[c].coverage_amount)
                            ELSE 0]
                     IN SumOver(ts, line)
        IN /\ shown'.discount = expected
           /\ UNCHANGED <<appts, bills, policies, pcov, bct>>]_vars

\* a bill whose policy has spent one of two matching coverage lines on an
\* earlier payment is shown with the discount of the other line only
C16_Witness ==
    /\ shown.bill = "b1"
    /\ bills["b1"].status = "UNPAID" /\ bills["b1"].policy = "pol1"
    /\ appts["a1"].treatments = {1, 2}
    /\ pcov["pol1"][1] /\ ~pcov["pol1"][2]
    /\ shown.discount = COVERAGE_DATA[2].coverage_amount

\* C17: payment is the only operation that sets PolicyCoverage.used or raises
\* Policy.total_covered: attaching a policy, update_status, the sweep and
\* every other request leave each used flag and each total_covered as they
\* were.
C17_OnlyPaymentConsumesCoverage ==
    [][(\/ \E p \in PolicyIds, c \in CoverageIds : ~pcov[p][c] /\ pcov'[p][c]
        \/ \E p \in PolicyIds :
              policies'[p].total_covered > policies[p].total_covered)
          => (last'.op = "PayBill" /\ last'.resp = "ok")]_vars

\* a policy has just been attached to a bill whose treatment it covers, and
\* its coverage line is still unused and nothing is counted as covered
C17_Witness ==
    /\ last.op = "UpdateBill" /\ last.arg = "b1" /\ last.resp # "rejected"
    /\ bills["b1"].policy = "pol1"
    /\ 1 \in appts["a1"].treatments
    /\ ~pcov["pol1"][1]
    /\ policies["pol1"].total_covered = 0

C19_StatusDerivationKeepsStatus ==
    [][\A p \in PolicyIds :
        (last'.op \in {"UpdatePolicyStatus", "UpdatePolicyExpiry"}
            /\ last'.arg = p) =>
            LET old == policies[p].status
                pastExpiry == policies'[p].expired
                covered == policies'[p].total_covered
                coverage == policies'[p].total_coverage
            IN policies'[p].status =
                IF pastExpiry /\ old # 2 /\ old # 4 THEN 3
                ELSE IF covered >= coverage /\ old # 4 THEN 2
                ELSE IF covered > 0 /\ old # 2 /\ old # 3 /\ old # 4 THEN 1
                ELSE old]_vars

\* an Expired policy with nothing covered has been given an expiry date in the
\* future and re-evaluated: no clause applies and it stays Expired
C19_Witness ==
    /\ last.op = "UpdatePolicyExpiry" /\ last.arg = "pol1"
    /\ policies["pol1"].status = 3
    /\ ~policies["pol1"].expired
    /\ policies["pol1"].total_covered = 0

\* C19: the status derivation of Policy.update_status and of the
\* update-policy-status endpoint yields Expired if expiry_date < today and the
\* status is not FullyClaimed or Cancelled; else FullyClaimed if
\* total_covered >= total_coverage and the status is not Cancelled; else
\* PartiallyClaimed if total_covered > 0 and the status is not FullyClaimed,
\* Expired or Cancelled; else Created.
C19_StatusDerivationElseCreated ==
    [][\A p \in PolicyIds :
        (last'.op \in {"UpdatePolicyStatus", "UpdatePolicyExpiry"}
            /\ last'.arg = p) =>
            LET old == policies[p].status
                pastExpiry == policies'[p].expired
                covered == policies'[p].total_covered
                coverage == policies'[p].total_coverage
            IN policies'[p].status =
                IF pastExpiry /\ old # 2 /\ old # 4 THEN 3
                ELSE IF covered >= coverage /\ old # 4 THEN 2
                ELSE IF covered > 0 /\ old # 2 /\ old # 3 /\ old # 4 THEN 1
                ELSE 0]_vars

\* C20: apart from the cancel action, policy status transitions are monotonic
\* over payments, status updates, expiry-date updates and expiry sweeps: on
\* the chain Created -> PartiallyClaimed -> FullyClaimed the status only moves
\* forward, and Expired is entered only from Created or PartiallyClaimed and
\* only when expiry_date < today.
C20_PolicyStatusMonotonic ==
    [][\A p \in PolicyIds :
        (policies[p].exists /\ last'.op # "CancelPolicy") =>
            LET old == policies[p].status
                new == policies'[p].status
            IN /\ (old \in {0, 1, 2} /\ new \in {0, 1, 2}) => new >= old
               /\ (new = 3 /\ old # 3) =>
                    (old \in {0, 1} /\ policies'[p].expired)]_vars

\* a policy that a payment has drawn on has since passed its expiry date and
\* has been marked Expired
C20_Witness ==
    /\ policies["pol1"].status = 3
    /\ policies["pol1"].expired
    /\ policies["pol1"].total_covered > 0
    /\ policies["pol1"].total_covered < policies["pol1"].total_coverage
    /\ last.op # "PayBill"

\* C21: a policy becomes Cancelled only through the cancel action applied to
\* it in status Created; cancelling a policy in any other status is rejected
\* and leaves it unchanged; and once a policy is Cancelled no operation
\* changes its status again.
C21_CancelledOnlyFromCreatedAndFinal ==
    [][\A p \in PolicyIds :
        policies[p].exists =>
            /\ (policies'[p].status = 4 /\ policies[p].status # 4) =>
                    /\ last' = [op |-> "CancelPolicy", arg |-> p, resp |-> "ok"]
                    /\ policies[p].status = 0
            /\ (last'.op = "CancelPolicy" /\ last'.arg = p
                    /\ policies[p].status # 0) =>
                    /\ last'.resp = "rejected"
                    /\ policies' = policies
            /\ policies[p].status = 4 => policies'[p].status = 4]_vars

\* a bill has been paid with a policy that was cancelled after it had been
\* attached, past its expiry date, and the policy is still Cancelled
C21_Witness ==
    /\ policies["pol1"].status = 4
    /\ policies["pol1"].expired
    /\ last = [op |-> "PayBill", arg |-> "b1", resp |-> "ok"]
    /\ paidWith["b1"].policy = "pol1"

\* C22: a request to create a policy for an existing patient with company c
\* is rejected, and no Policy or PolicyCoverage row is created, whenever the
\* total coverage of c exceeds the patient's available limit: the class limit
\* minus the summed total_coverage of the patient's non-deleted policies in
\* status Created, PartiallyClaimed or FullyClaimed.
C22_OverLimitPolicyRejected ==
    [][last'.op = "CreatePolicy" =>
        \A p \in Patients :
            (/\ p \in scope /\ p \in patients
             /\ TotalCoverageOf(last'.arg) > AvailableLimit(p)) =>
                /\ last'.resp = "rejected"
                /\ policies' = policies
                /\ pcov' = pcov]_vars

C24_AppointmentStatusFinal ==
    [][\A a \in Appointments :
        (appts[a].exists /\ appts[a].status \in {1, 2}) =>
            appts'[a].status = appts[a].status]_vars

\* C25: after a run of the update_bill_components sweep every bill that is
\* not Paid has component fee fields equal to the current fees of its linked
\* records (appointment total_fee and prescription total_price when those are
\* Done, reservation total_fee always) and a stored subtotal equal to the sum
\* of its component fields, also when the bill was already Unpaid at the time
\* a linked fee changed.
C25_SweepLeavesBillsCurrent ==
    [][last'.op = "UpdateBillComponents" =>
        \A b \in Bills :
            (bills'[b].exists /\ bills'[b].status # "PAID") =>
                LET bill == bills'[b]
                IN /\ (bill.appointment # None
                          /\ appts'[bill.appointment].status = 1) =>
                        bill.appointment_total_fee
                            = appts'[bill.appointment].total_fee
                   /\ (bill.prescription # None /\ presc'.status = 2) =>
                        bill.prescription_total_price = presc'.total_price
                   /\ bill.reservation # None =>
                        bill.reservation_total_fee = resv'.total_fee
                   /\ bill.subtotal = bill.appointment_total_fee
                        + bill.prescription_total_price
                        + bill.reservation_total_fee]_vars

\* C26: when an appointment is marked Done and its bill is
\* TreatmentInProgress with no linked prescription that is not Done, the bill
\* is Unpaid when the status-update request returns; and a bill in that
\* situation is Unpaid at the latest after the next update_bill_components
\* sweep.
C26_DoneAppointmentMakesBillUnpaid ==
    [][\A b \in Bills :
        LET a == bills[b].appointment
            ready == /\ bills[b].exists /\ a # None
                     /\ bills[b].status = "TREATMENT_IN_PROGRESS"
                     /\ (bills[b].prescription = None \/ presc.status = 2)
        IN /\ (ready /\ appts[a].status # 1 /\ appts'[a].status = 1) =>
                bills'[b].status = "UNPAID"
           /\ (ready /\ appts[a].status = 1
                     /\ last'.op = "UpdateBillComponents") =>
                bills'[b].status = "UNPAID"]_vars

\* an appointment whose linked prescription was already Done has just been
\* marked Done, and its bill is Unpaid
C26_Witness ==
    /\ last.op = "other"
    /\ appts["a1"].status = 1
    /\ bills["b1"].prescription = "pr1" /\ presc.status = 2
    /\ usPost["b1"].exists /\ usPost["b1"].status = "UNPAID"
    /\ bills["b1"].status = "UNPAID"

\* C27: for every policy, total_covered equals the sum of coverage_amount
\* over the BillCoveredTreatment rows of the Paid bills that were paid with
\* that policy attached, also after a policy has been attached again.
C27_CoveredEqualsAuditRows ==
    \A p \in PolicyIds :
        policies[p].exists =>
            LET rows == {r \in bct :
                            /\ bills[r.bill].status = "PAID"
                            /\ paidWith[r.bill].paid
                            /\ paidWith[r.bill].policy = p}
            IN policies[p].total_covered
                  = SumOver(rows, [r \in rows |-> r.coverage_amount])

\* C28: a policy is PartiallyClaimed only if its total_covered > 0: no
\* sequence of operations, the payment of a bill whose attached policy yields
\* a zero discount included, leaves a policy PartiallyClaimed with
\* total_covered = 0.
C28_PartiallyClaimedHasCovered ==
    \A p \in PolicyIds :
        (policies[p].exists /\ policies[p].status = 1) =>
            policies[p].total_covered > 0

\* C29: a payment consumes coverage (sets used flags, raises total_covered,
\* writes covered-treatment rows) only from a policy that is active when
\* the bill is paid (status Created or PartiallyClaimed): a policy that
\* became Cancelled, Expired or FullyClaimed after it was attached is never
\* charged by a later payment of the bill.
C29_PaymentChargesActivePolicyOnly ==
    [][\A b \in Bills :
        (/\ last'.op = "PayBill"
         /\ last'.arg = b
         /\ last'.resp = "ok"
         /\ bills[b].policy # None) =>
            LET p == bills[b].policy
            IN (\/ policies'[p].total_covered > policies[p].total_covered
                \/ pcov'[p] # pcov[p]
                \/ bct' # bct) =>
                    policies[p].status \in {0, 1}]_vars

\* C30: non-concurrent appointment creations and soft-deletions yield
\* pairwise distinct appointment ids: the id built from specialty code, DDMM
\* and (count of the doctor's non-deleted appointments of the day + 1) never
\* equals the id of an existing appointment, two doctors of one specialty on
\* the same day and a creation after a soft-deletion of the day included.
C30_BuiltIdIsFresh ==
    [][(last'.op = "PostAppointment" /\ last'.resp # "rejected") =>
            last'.arg \notin {r.id : r \in booked}]_vars

====
